---- MODULE Spec2Model ----
(***************************************************************************)
(* Model of src/main.py: a one-page PDF scraper.  main() fetches (or reads *)
(* from a cache file) the seed page, extracts the hrefs that end in .pdf,  *)
(* prefixes the ones that are not valid absolute URLs with the site origin *)
(* and hands each to download_pdf, which gates on Content-Type, derives a  *)
(* filename from Content-Disposition or the URL, sanitizes it, skips an    *)
(* existing file and otherwise streams the body to disk.                   *)
(*                                                                         *)
(* Text is modelled character by character: a Python str is a sequence of  *)
(* one-character strings, so that lower(), endswith(), the two regular     *)
(* expressions, splitext, basename and the sanitizing substitutions are    *)
(* computed as the code computes them.                                     *)
(***************************************************************************)
EXTENDS Integers, Sequences, FiniteSets, TLC

(* ------------------------------ bounds -------------------------------- *)
\* longest page (number of <a href> elements) the model draws
MaxLinks == 2
\* most parameters of a Content-Disposition header the model draws
MaxParams == 2

(* --------------------------- str primitives --------------------------- *)
lowerLetters == <<"a","b","c","d","e","f","g","h","i","j","k","l","m","n","o","p","q","r","s","t","u","v","w","x","y","z">>
upperLetters == <<"A","B","C","D","E","F","G","H","I","J","K","L","M","N","O","P","Q","R","S","T","U","V","W","X","Y","Z">>
digitChars == {"0","1","2","3","4","5","6","7","8","9"}
hexChars == digitChars \cup {"a","b","c","d","e","f","A","B","C","D","E","F"}

Max(S) == CHOOSE x \in S : \A y \in S : y <= x
Min(S) == CHOOSE x \in S : \A y \in S : x <= y

\* str.lower() on one character (ASCII letters; every other character is its own lower case)
lowerOf ==
    [c \in {upperLetters[i] : i \in 1..26} |->
        lowerLetters[CHOOSE i \in 1..26 : upperLetters[i] = c]]
upperSet == DOMAIN lowerOf
lowerSet == {lowerLetters[i] : i \in 1..26}
alnumSet == lowerSet \cup digitChars
LowerChar(c) == IF c \in upperSet THEN lowerOf[c] ELSE c

\* str.lower()
str_lower(s) == [i \in 1..Len(s) |-> LowerChar(s[i])]

\* str.endswith(suffix)
str_endswith(s, suffix) ==
    /\ Len(s) >= Len(suffix)
    /\ SubSeq(s, Len(s) - Len(suffix) + 1, Len(s)) = suffix

\* the in operator on str: sub occurs in s
str_contains(s, sub) ==
    \E i \in 1..(Len(s) - Len(sub) + 1) : SubSeq(s, i, i + Len(sub) - 1) = sub

\* first index >= from at which a character of stops occurs, Len(s)+1 when none does
RECURSIVE FirstOf(_, _, _)
FirstOf(s, from, stops) ==
    IF from > Len(s) THEN Len(s) + 1
    ELSE IF s[from] \in stops THEN from
    ELSE FirstOf(s, from + 1, stops)

\* first index >= from whose character is not in chars, Len(s)+1 when none
RECURSIVE FirstNotOf(_, _, _)
FirstNotOf(s, from, chars) ==
    IF from > Len(s) THEN Len(s) + 1
    ELSE IF s[from] \notin chars THEN from
    ELSE FirstNotOf(s, from + 1, chars)

\* last index <= from whose character is not in chars, 0 when none
RECURSIVE LastNotOf(_, _, _)
LastNotOf(s, from, chars) ==
    IF from < 1 THEN 0
    ELSE IF s[from] \notin chars THEN from
    ELSE LastNotOf(s, from - 1, chars)

\* last index <= from at which the character c occurs, 0 when none
RECURSIVE LastOf(_, _, _)
LastOf(s, from, c) ==
    IF from < 1 THEN 0
    ELSE IF s[from] = c THEN from
    ELSE LastOf(s, from - 1, c)

\* str.strip(chars): drop the leading and trailing characters that are in chars
str_strip(s, chars) == SubSeq(s, FirstNotOf(s, 1, chars), LastNotOf(s, Len(s), chars))

\* str.rfind(c) for a single character, 1-based; 0 when c does not occur (Python's -1)
str_rfind(s, c) == LastOf(s, Len(s), c)

\* the characters \s matches, among those the model draws
Whitespace == {" ", "\t"}

(* ------------------- filename from the response headers ---------------- *)
\* the result of re.search: whether the pattern matched, and its group 1
NoMatch == [matched |-> FALSE, group |-> <<>>]
Matched(g) == [matched |-> TRUE, group |-> g]

\* the literal filename of both patterns, matched under re.IGNORECASE at index i
KeyAt(s, i, key) ==
    /\ i + Len(key) - 1 <= Len(s)
    /\ \A k \in 1..Len(key) : LowerChar(s[i + k - 1]) = key[k]

\* [^;\r\n]+ : the longest run from index from of characters outside stops; <<>> when empty
RunFrom(s, from, stops) == SubSeq(s, from, FirstOf(s, from, stops) - 1)

\* filename\*\s*=\s*[^']*''([^;\r\n]+) attempted at start index i.  [^']* is greedy and
\* cannot cross a quote, so '' has to sit at the first quote after the =.
ExtendedAt(cd, i) ==
    LET key == <<"f","i","l","e","n","a","m","e","*">>
        eq  == FirstNotOf(cd, i + Len(key), Whitespace)
        q   == FirstOf(cd, eq + 1, {"'"})
        g   == RunFrom(cd, q + 2, {";", "\r", "\n"})
    IN  IF ~KeyAt(cd, i, key) THEN NoMatch
        ELSE IF eq > Len(cd) \/ cd[eq] # "=" THEN NoMatch
        ELSE IF q + 1 > Len(cd) \/ cd[q + 1] # "'" THEN NoMatch
        ELSE IF g = <<>> THEN NoMatch
        ELSE Matched(g)

\* filename\s*=\s*\"?([^\";\r\n]+)\"? with the second \s* ending at index p: an optional
\* quote, then a non-empty run of characters outside [";\r\n]
SimpleTail(cd, p) ==
    LET stops == {"\"", ";", "\r", "\n"}
        from  == IF p <= Len(cd) /\ cd[p] = "\"" THEN p + 1 ELSE p
        g     == RunFrom(cd, from, stops)
    IN  IF g = <<>> THEN NoMatch ELSE Matched(g)

\* the simple pattern attempted at start index i; the greedy second \s* gives back one
\* whitespace character at a time until the rest matches (backtracking)
SimpleAt(cd, i) ==
    LET key == <<"f","i","l","e","n","a","m","e">>
        eq  == FirstNotOf(cd, i + Len(key), Whitespace)
        k   == FirstNotOf(cd, eq + 1, Whitespace)
        ok  == {p \in (eq + 1)..k : SimpleTail(cd, p).matched}
    IN  IF ~KeyAt(cd, i, key) THEN NoMatch
        ELSE IF eq > Len(cd) \/ cd[eq] # "=" THEN NoMatch
        ELSE IF ok = {} THEN NoMatch
        ELSE SimpleTail(cd, Max(ok))

\* re.search of the extended pattern: the match at the leftmost start index that matches
search_extended(s) ==
    LET starts == {i \in 1..Len(s) : ExtendedAt(s, i).matched}
    IN  IF starts = {} THEN NoMatch ELSE ExtendedAt(s, Min(starts))

\* re.search of the simple pattern
search_simple(s) ==
    LET starts == {i \in 1..Len(s) : SimpleAt(s, i).matched}
    IN  IF starts = {} THEN NoMatch ELSE SimpleAt(s, Min(starts))

\* urllib.parse.urlparse(url).path of a URL that has a scheme and //: what follows the
\* authority, up to the fragment, the query and the parameters of the last segment
urlparse_path(url) ==
    LET colon   == FirstOf(url, 1, {":"})
        authEnd == FirstOf(url, colon + 3, {"/", "?", "#"})
        rest    == SubSeq(url, authEnd, Len(url))
        noFrag  == SubSeq(rest, 1, FirstOf(rest, 1, {"#"}) - 1)
        noQuery == SubSeq(noFrag, 1, FirstOf(noFrag, 1, {"?"}) - 1)
        semi    == FirstOf(noQuery, Max({1, str_rfind(noQuery, "/")}), {";"})
    IN  SubSeq(noQuery, 1, semi - 1)

\* os.path.basename: what follows the last slash
basename(p) == SubSeq(p, str_rfind(p, "/") + 1, Len(p))

\* os.path.splitext: split at the last dot of the last component, unless that component
\* has only leading dots before it
splitext(p) ==
    LET sepIndex == str_rfind(p, "/")
        dotIndex == str_rfind(p, ".")
    IN  IF /\ dotIndex > sepIndex
           /\ \E k \in (sepIndex + 1)..(dotIndex - 1) : p[k] # "."
        THEN <<SubSeq(p, 1, dotIndex - 1), SubSeq(p, dotIndex, Len(p))>>
        ELSE <<p, <<>>>>

PdfSuffix == <<".","p","d","f">>

\* lines 110-113: the last path segment of the URL, .pdf appended unless it ends in .pdf
url_fallback(url) ==
    LET filename == basename(urlparse_path(url))
    IN  IF ~str_endswith(filename, PdfSuffix) THEN filename \o PdfSuffix ELSE filename

\* the two patterns tried in the other order
raw_filename_simple_first(content_disposition, url) ==
    LET ext == search_extended(content_disposition)
        sim == search_simple(content_disposition)
    IN  IF sim.matched THEN [via |-> "simple", name |-> str_strip(sim.group, {"\""})]
        ELSE IF ext.matched THEN [via |-> "extended", name |-> str_strip(ext.group, {"\""})]
        ELSE [via |-> "url", name |-> url_fallback(url)]

\* lines 93-113: the filename before sanitizing, and which of the three sources gave it
raw_filename(content_disposition, url) ==
    LET ext == search_extended(content_disposition)
        sim == search_simple(content_disposition)
    IN  IF ext.matched THEN [via |-> "extended", name |-> str_strip(ext.group, {"\""})]
        ELSE IF sim.matched THEN [via |-> "simple", name |-> str_strip(sim.group, {"\""})]
        ELSE [via |-> "url", name |-> url_fallback(url)]

\* re.sub(r"[^a-z0-9]", "_", s)
sub_non_alnum(s) == [i \in 1..Len(s) |-> IF s[i] \in alnumSet THEN s[i] ELSE "_"]

\* re.sub(r"_+", "_", s): of every run of underscores one is kept
RECURSIVE collapse_underscores(_)
collapse_underscores(s) ==
    IF Len(s) < 2 THEN s
    ELSE IF s[1] = "_" /\ s[2] = "_" THEN collapse_underscores(Tail(s))
    ELSE <<s[1]>> \o collapse_underscores(Tail(s))

\* lines 116-120: the sanitized stem
sanitize_stem(name_part) ==
    str_strip(collapse_underscores(sub_non_alnum(str_lower(name_part))), {"_"})

\* lines 116-121: split, sanitize the stem, lower-case the extension, recombine
sanitize(filename) ==
    LET parts == splitext(filename)
    IN  sanitize_stem(parts[1]) \o str_lower(parts[2])

\* lines 93-121: the resolved filename of a response
resolve_filename(content_disposition, url) ==
    sanitize(raw_filename(content_disposition, url).name)

(* ------------------------- links and their URLs ----------------------- *)
\* the printable ASCII characters, code 32 (space) to 126 (~); the backquote, which a
\* TLA+ string cannot hold, is written by name
asciiPrintable ==
    <<" ","!","\"","#","$","%","&","'","(",")","*","+",",","-",".","/","0","1","2","3","4","5","6","7","8","9",":",";","<","=",">","?","@","A","B","C","D","E","F","G","H","I","J","K","L","M","N","O","P","Q","R","S","T","U","V","W","X","Y","Z","[","\\","]","^","_","<backquote>","a","b","c","d","e","f","g","h","i","j","k","l","m","n","o","p","q","r","s","t","u","v","w","x","y","z","{","|","}","~">>

\* a character that is not printable ASCII (a control character, or what a byte >= 0x80
\* decodes to); none of them is part of .pdf
OtherChar == "<other>"

HexVal(c) ==
    LET hex == <<"0","1","2","3","4","5","6","7","8","9","a","b","c","d","e","f">>
        lc  == LowerChar(c)
    IN  (CHOOSE i \in 1..16 : hex[i] = lc) - 1

\* the character a %XX escape stands for
EscapeChar(hi, lo) ==
    LET code == 16 * HexVal(hi) + HexVal(lo)
    IN  IF code >= 32 /\ code <= 126 THEN asciiPrintable[code - 31] ELSE OtherChar

\* urllib.parse.unquote: every %XX with two hex digits is replaced by its character,
\* any other % is kept
RECURSIVE unquote(_)
unquote(s) ==
    IF s = <<>> THEN <<>>
    ELSE IF s[1] = "%" /\ Len(s) >= 3 /\ s[2] \in hexChars /\ s[3] \in hexChars
         THEN <<EscapeChar(s[2], s[3])>> \o unquote(SubSeq(s, 4, Len(s)))
         ELSE <<s[1]>> \o unquote(Tail(s))

\* line 61: the decoded href, lower-cased, ends in .pdf
IsPdfHref(href) == str_endswith(str_lower(unquote(href)), PdfSuffix)

\* parse_html: the hrefs of the page's anchors, in document order, that pass line 61; the
\* original href is kept, not the decoded one.  A page is the sequence of the href values
\* of its <a href=...> elements, as the HTML parser hands them over.
parse_html(html) == SelectSeq(html, IsPdfHref)

\* the characters a URL may hold after its authority
UrlChars ==
    lowerSet \cup upperSet \cup digitChars
    \cup {"-", ".", "_", "~", "%", "!", "$", "&", "'", "(", ")", "*", "+", ",", ";", "=",
          ":", "@", "/", "?", "#", "[", "]"}

\* the labels of a host name are non-empty, made of letters, digits and hyphens, with no
\* hyphen at either end; there are at least two and the last is alphabetic
ValidHost(host) ==
    LET h       == str_lower(host)
        n       == Len(h)
        lastDot == str_rfind(h, ".")
    IN  /\ n > 0
        /\ \A i \in 1..n : h[i] \in alnumSet \cup {"-", "."}
        /\ h[1] \notin {".", "-"} /\ h[n] \notin {".", "-"}
        /\ \A i \in 1..(n - 1) : ~(h[i] \in {".", "-"} /\ h[i + 1] = ".")
        /\ \A i \in 1..(n - 1) : ~(h[i] = "." /\ h[i + 1] = "-")
        /\ lastDot > 0
        /\ \A i \in (lastDot + 1)..n : h[i] \in lowerSet

\* validate_url: validators.url(given_url) is True.  The string is scheme://host[:port]
\* followed by a path, query and fragment without white space.
validate_url(given_url) ==
    LET n       == Len(given_url)
        colon   == FirstOf(given_url, 1, {":"})
        scheme  == str_lower(SubSeq(given_url, 1, colon - 1))
        authEnd == FirstOf(given_url, colon + 3, {"/", "?", "#"})
        auth    == SubSeq(given_url, colon + 3, authEnd - 1)
        portAt  == FirstOf(auth, 1, {":"})
        host    == SubSeq(auth, 1, portAt - 1)
        port    == SubSeq(auth, portAt + 1, Len(auth))
    IN  /\ scheme \in {<<"h","t","t","p">>, <<"h","t","t","p","s">>, <<"f","t","p">>}
        /\ colon + 2 <= n
        /\ given_url[colon + 1] = "/" /\ given_url[colon + 2] = "/"
        /\ ValidHost(host)
        /\ portAt <= Len(auth) => (port # <<>> /\ \A i \in 1..Len(port) : port[i] \in digitChars)
        /\ \A i \in authEnd..n : given_url[i] \in UrlChars

\* line 169: the fixed site origin every non-URL href is prefixed with
Origin ==
    <<"h","t","t","p","s",":","/","/","m","y","d","e","n","t","i","t","y","c","o","l","o","r",".","c","o","m">>

\* line 147: the page main() fetches
url_to_fetch ==
    <<"h","t","t","p","s",":","/","/","m","y","d","e","n","t","i","t","y","c","o","l","o","r",".","c","o","m","/","s","d","s","/">>

\* line 169: the URL handed to download_pdf
resolve_url(href) == Origin \o href

(* --------------------------- what is drawn ---------------------------- *)
\* href values of the seed page: a relative PDF link, an absolute one (whose .PDF is
\* upper case, with its dot percent-encoded), a relative one with a space in it, and a
\* link that is no PDF
HrefPlain    == <<"/","s","d","s","/","a",".","p","d","f">>
HrefAbsolute == <<"h","t","t","p","s",":","/","/","e","x","a","m","p","l","e",".","c","o","m","/","b","%","2","E","P","D","F">>
HrefSpace    == <<"/","s","d","s","/","m","y"," ","f","i","l","e",".","p","d","f">>
HrefImage    == <<"/","i","m","g",".","p","n","g">>
Hrefs == {HrefPlain, HrefAbsolute, HrefSpace, HrefImage}

\* the pages the server may serve: every sequence of at most MaxLinks hrefs
Pages == UNION {[1..n -> Hrefs] : n \in 0..MaxLinks}

\* Content-Type values; <<>> is the absent header (headers.get's default, line 87)
CtPdf      == <<"a","p","p","l","i","c","a","t","i","o","n","/","p","d","f">>
CtPdfUpper == <<"A","p","p","l","i","c","a","t","i","o","n","/","P","D","F">>
CtHtml     == <<"t","e","x","t","/","h","t","m","l">>

\* Content-Disposition values; <<>> is the absent header (line 93)
CdNamesA     == <<"a","t","t","a","c","h","m","e","n","t",";"," ","f","i","l","e","n","a","m","e","=","\"","a",".","p","d","f","\"">>
CdUnderscore == <<"a","t","t","a","c","h","m","e","n","t",";"," ","f","i","l","e","n","a","m","e","=","\"","_","\"">>

\* response bodies, as the chunks iter_content yields; "" is an empty chunk
BodyOne == <<"%PDF-1", "", "%%EOF">>
BodyTwo == <<"%PDF-2">>

\* A response to the GET of line 84.  status: "ok" (2xx), "http_error" (raise_for_status
\* raises) or "transport_error" (requests.get raises).  stream: "complete", or the body
\* iterator raises a RequestException ("breaks") or file.write raises an OSError
\* ("disk_error") once cut chunks have been handed over.
Response(status, ct, cd, body, stream, cut) ==
    [status |-> status, content_type |-> ct, content_disposition |-> cd,
     body |-> body, stream |-> stream, cut |-> cut]

Responses ==
    { Response("ok", CtPdf, <<>>, BodyOne, "complete", 3),
      Response("ok", CtPdfUpper, CdNamesA, BodyTwo, "complete", 1),
      Response("ok", CtHtml, CdNamesA, BodyTwo, "complete", 1),
      Response("ok", <<>>, <<>>, BodyOne, "complete", 3),
      Response("http_error", CtHtml, <<>>, BodyTwo, "complete", 1),
      Response("transport_error", <<>>, <<>>, <<>>, "complete", 0),
      Response("ok", CtPdf, <<>>, BodyOne, "breaks", 1),
      Response("ok", CtPdf, <<>>, BodyOne, "disk_error", 0),
      Response("ok", CtPdf, CdUnderscore, BodyTwo, "complete", 1) }

\* The parameters a Content-Disposition value is put together from: the disposition
\* type, extended parameters (filename*=<charset>''<value>), simple parameters
\* (filename=<value>, quoted or not).  text is what the header holds, value the name the
\* parameter carries.
Param(kind, text, value) == [kind |-> kind, text |-> text, value |-> value]
HeaderParams ==
    { Param("type", <<"a","t","t","a","c","h","m","e","n","t">>, <<>>),
      Param("extended", <<"f","i","l","e","n","a","m","e","*","=","U","T","F","-","8","'","'","r","e","l","a","t","o","r","i","o",".","p","d","f">>, <<"r","e","l","a","t","o","r","i","o",".","p","d","f">>),
      Param("extended", <<"F","i","l","e","n","a","m","e","*","=","u","t","f","-","8","'","'","R","e","l","%","2","0","A",".","P","D","F">>, <<"R","e","l","%","2","0","A",".","P","D","F">>),
      Param("simple", <<"f","i","l","e","n","a","m","e","=","\"","o","t","h","e","r",".","p","d","f","\"">>, <<"o","t","h","e","r",".","p","d","f">>),
      Param("simple", <<"f","i","l","e","n","a","m","e","=","M","y"," ","R","e","p","o","r","t"," ","(","F","i","n","a","l",")",".","P","D","F">>, <<"M","y"," ","R","e","p","o","r","t"," ","(","F","i","n","a","l",")",".","P","D","F">>),
      Param("simple", <<"F","I","L","E","N","A","M","E","=","\"","_","\"">>, <<"_">>) }

\* the header value: the parameters joined by "; "
RECURSIVE Render(_)
Render(params) ==
    IF params = <<>> THEN <<>>
    ELSE IF Len(params) = 1 THEN params[1].text
    ELSE params[1].text \o <<";", " ">> \o Render(Tail(params))

\* the URLs download_pdf is called with when the header is what is drawn
UrlLower == <<"h","t","t","p","s",":","/","/","m","y","d","e","n","t","i","t","y","c","o","l","o","r",".","c","o","m","/","s","d","s","/","a",".","p","d","f">>
UrlUpper == <<"h","t","t","p","s",":","/","/","m","y","d","e","n","t","i","t","y","c","o","l","o","r",".","c","o","m","/","s","d","s","/","G","U","I","D","E",".","P","D","F">>
UrlNoExt == <<"h","t","t","p","s",":","/","/","e","x","a","m","p","l","e",".","c","o","m","/","f","i","l","e","s","/","g","u","i","d","e">>
UrlQuery == <<"h","t","t","p","s",":","/","/","m","y","d","e","n","t","i","t","y","c","o","l","o","r",".","c","o","m","/","s","d","s","/","b",".","p","d","f","?","v","=","2">>
GivenUrls == {UrlLower, UrlUpper, UrlNoExt, UrlQuery}

\* the calls drawn: a URL and the parameters of the Content-Disposition header
Givens ==
    {[url |-> u, params |-> ps] :
        u \in GivenUrls, ps \in UNION {[1..n -> HeaderParams] : n \in 0..MaxParams}}
NoGiven == [url |-> <<>>, params |-> <<>>]

\* a response to the GET of the seed page (line 45): its text, or a failure
PageResponses ==
    {[ok |-> TRUE, text |-> p] : p \in Pages} \cup {[ok |-> FALSE, text |-> <<>>]}

(* ------------------------------ state --------------------------------- *)
VARIABLES
    pc,         \* where main() is: "start", "extract", "loop", "done"; "call" and
                \* "returned" around a single call of download_pdf
    run,        \* which execution of main() this is: the "first", or one run "again"
    cache,      \* the file mydentitycolor.html: [exists, text]
    links,      \* extracted_pdf_urls
    idx,        \* position of the for loop of line 167 in links
    dir_made,   \* whether the directory PDFs exists
    files,      \* the regular files in PDFs: name -> [data, complete]
    fetched,    \* what became of this run's GET of the seed page: "none", "ok", "failed"
    attempts,   \* the URLs this run called download_pdf with, in order
    last,       \* the latest call of download_pdf and what it did
    page_seen,  \* the seed response the server is held to, once it gave one
    served,     \* the responses the server is held to: url -> response
    produced,   \* under such a server, the files created so far: [url, filename, run]
    given       \* the call drawn when a single call of download_pdf is examined

vars == <<pc, run, cache, links, idx, dir_made, files, fetched, attempts, last,
          page_seen, served, produced, given>>

NoFile == [exists |-> FALSE, text |-> <<>>]
NoResponse == Response("none", <<>>, <<>>, <<>>, "complete", 0)
NoCall ==
    [called |-> FALSE, url |-> <<>>, response |-> NoResponse, outcome |-> "none",
     resolved |-> FALSE, via |-> "none", raw_name |-> <<>>, filename |-> <<>>,
     created |-> FALSE]
NoPage == [known |-> FALSE, response |-> [ok |-> FALSE, text |-> <<>>]]

(* ------------------------- the file helpers --------------------------- *)
\* check_file_exists
check_file_exists(file) == file.exists

\* append_write_to_file: open in mode "a" creates the file when it is missing
append_write_to_file(file, content) == [exists |-> TRUE, text |-> file.text \o content]

\* read_a_file
read_a_file(file) == file.text

\* get_url_content without raise_for_status: whatever came back is the text
get_url_content_no_raise(response) == [is_none |-> FALSE, text |-> response.text]

\* get_url_content: the text of a 2xx response, None after a RequestException
get_url_content(response) ==
    IF response.ok THEN [is_none |-> FALSE, text |-> response.text]
    ELSE [is_none |-> TRUE, text |-> <<>>]

(* ---------------------------- download_pdf ---------------------------- *)
\* the gate with a missing header let through
is_pdf_or_absent(content_type) ==
    content_type = <<>> \/ str_contains(str_lower(content_type), CtPdf)

\* line 88: the content-type gate
is_pdf(content_type) == str_contains(str_lower(content_type), CtPdf)

\* the existence check made on the bare filename, in the working directory, where no
\* download is
path_exists_wrong_dir(fl, filename) ==
    LET cwd == <<>>
    IN  filename \in DOMAIN cwd

\* the existence check made with os.path.isdir
path_exists_dir_only(fl, filename) == filename \in {<<>>, <<".">>}

\* line 127: os.path.exists of PDFs/<filename> once PDFs is made; the empty name and "."
\* name the directory itself
path_exists(fl, filename) == filename \in DOMAIN fl \/ filename \in {<<>>, <<".">>}

\* lines 133-135: the chunks written before the stream ends or fails, empty ones skipped
IsChunk(chunk) == chunk # ""
written(response) ==
    SelectSeq(SubSeq(response.body, 1,
                     IF response.stream = "complete" THEN Len(response.body)
                     ELSE response.cut),
              IsChunk)

\* lines 132-142: the outcome of the write step
write_outcome(response) ==
    CASE response.stream = "complete"   -> "Downloaded"
      [] response.stream = "breaks"     -> "FetchFailed"
      [] response.stream = "disk_error" -> "UnexpectedError"

\* what a call of download_pdf comes to: its outcome, the filename it resolved if it got
\* that far (and from which source, and what it was before sanitizing), the directory
\* and its files afterwards
Result(outcome, resolved, raw, filename, made, fl) ==
    [outcome |-> outcome, resolved |-> resolved, via |-> raw.via, raw_name |-> raw.name,
     filename |-> filename, dir_made |-> made, files |-> fl]
NoName == [via |-> "none", name |-> <<>>]

\* the write step with the file removed again when the stream fails
write_file_cleanup(fl, filename, response) ==
    IF response.stream = "complete"
    THEN (filename :> [data |-> written(response), complete |-> TRUE]) @@ fl
    ELSE fl

\* lines 132-135: open(file_path, "wb") creates the file, the chunks are written to it
write_file(fl, filename, response) ==
    (filename :> [data |-> written(response), complete |-> response.stream = "complete"])
        @@ fl

\* download_pdf(url, download_dir) when the GET is answered by response, with the
\* directory and its files as given
download_pdf(url, response, made, fl) ==
    IF response.status # "ok" THEN Result("FetchFailed", FALSE, NoName, <<>>, made, fl)
    ELSE IF ~is_pdf(response.content_type)
    THEN Result("SkippedNotPdf", FALSE, NoName, <<>>, made, fl)
    ELSE LET raw      == raw_filename(response.content_disposition, url)
             filename == sanitize(raw.name)
         IN  IF path_exists(fl, filename)
             THEN Result("SkippedExisting", TRUE, raw, filename, TRUE, fl)
             ELSE Result(write_outcome(response), TRUE, raw, filename, TRUE,
                         write_file(fl, filename, response))

\* the record of a call
Call(url, response, res, fl) ==
    [called |-> TRUE, url |-> url, response |-> response, outcome |-> res.outcome,
     resolved |-> res.resolved, via |-> res.via, raw_name |-> res.raw_name,
     filename |-> res.filename, created |-> DOMAIN res.files # DOMAIN fl]

(* ------------------------------- main --------------------------------- *)
\* the condition of line 168 the other way round
should_download_valid(href) == validate_url(href)

\* line 168: a link is downloaded when it is not a valid URL
should_download(href) == ~validate_url(href)

\* the server answers a URL as it answered it before, when it is held to that
SameAsBefore(url, response) == url \in DOMAIN served => served[url] = response

Init ==
    /\ pc = "start"
    /\ run = "first"
    /\ cache = NoFile
    /\ links = <<>>
    /\ idx = 1
    /\ dir_made = FALSE
    /\ files = <<>>
    /\ fetched = "none"
    /\ attempts = <<>>
    /\ last = NoCall
    /\ page_seen = NoPage
    /\ served = <<>>
    /\ produced = {}
    /\ given = NoGiven

\* lines 154-159, the cache file is missing: GET the seed page and save it on success
FetchPage(held) ==
    /\ pc = "start"
    /\ ~check_file_exists(cache)
    /\ \E response \in PageResponses :
          LET webpage_content == get_url_content(response)
          IN  /\ held /\ page_seen.known => page_seen.response = response
              /\ page_seen' = IF held THEN [known |-> TRUE, response |-> response]
                              ELSE page_seen
              /\ cache' = IF ~webpage_content.is_none
                          THEN append_write_to_file(cache, webpage_content.text)
                          ELSE cache
              /\ fetched' = IF response.ok THEN "ok" ELSE "failed"
    /\ pc' = "extract"
    /\ UNCHANGED <<run, links, idx, dir_made, files, attempts, last, served, produced,
                   given>>

\* line 154, the cache file is there: nothing is fetched
UseCache ==
    /\ pc = "start"
    /\ check_file_exists(cache)
    /\ pc' = "extract"
    /\ UNCHANGED <<run, cache, links, idx, dir_made, files, fetched, attempts, last,
                   page_seen, served, produced, given>>

\* lines 162-165: read the cache file and extract its PDF links
Extract ==
    /\ pc = "extract"
    /\ check_file_exists(cache)
    /\ links' = parse_html(read_a_file(cache))
    /\ idx' = 1
    /\ pc' = "loop"
    /\ UNCHANGED <<run, cache, dir_made, files, fetched, attempts, last, page_seen, served,
                   produced, given>>

\* line 162, no cache file: main() returns
NoExtract ==
    /\ pc = "extract"
    /\ ~check_file_exists(cache)
    /\ pc' = "done"
    /\ UNCHANGED <<run, cache, links, idx, dir_made, files, fetched, attempts, last,
                   page_seen, served, produced, given>>

\* lines 167-168: a link that is a valid URL is passed over
SkipLink ==
    /\ pc = "loop"
    /\ idx <= Len(links)
    /\ ~should_download(links[idx])
    /\ idx' = idx + 1
    /\ UNCHANGED <<pc, run, cache, links, dir_made, files, fetched, attempts, last,
                   page_seen, served, produced, given>>

\* lines 168-170: any other link is prefixed with the origin and downloaded
DownloadLink(held) ==
    /\ pc = "loop"
    /\ idx <= Len(links)
    /\ should_download(links[idx])
    /\ \E response \in Responses :
          LET url == resolve_url(links[idx])
              res == download_pdf(url, response, dir_made, files)
              new == {[url |-> url, filename |-> f, run |-> run] :
                         f \in DOMAIN res.files \ DOMAIN files}
          IN  /\ held => SameAsBefore(url, response)
              /\ served' = IF held THEN (url :> response) @@ served ELSE served
              /\ produced' = IF held THEN produced \cup new ELSE produced
              /\ dir_made' = res.dir_made
              /\ files' = res.files
              /\ attempts' = Append(attempts, url)
              /\ last' = Call(url, response, res, files)
    /\ idx' = idx + 1
    /\ UNCHANGED <<pc, run, cache, links, fetched, page_seen, given>>

\* line 167: the loop is over
EndLoop ==
    /\ pc = "loop"
    /\ idx > Len(links)
    /\ pc' = "done"
    /\ UNCHANGED <<run, cache, links, idx, dir_made, files, fetched, attempts, last,
                   page_seen, served, produced, given>>

\* the program is started again, on the cache file and the directory the last run left
RunAgain ==
    /\ pc = "done"
    /\ run' = "again"
    /\ pc' = "start"
    /\ links' = <<>>
    /\ idx' = 1
    /\ fetched' = "none"
    /\ attempts' = <<>>
    /\ last' = NoCall
    /\ UNCHANGED <<cache, dir_made, files, page_seen, served, produced, given>>

\* the server answers each request as it pleases
Next ==
    \/ FetchPage(FALSE)
    \/ UseCache
    \/ Extract
    \/ NoExtract
    \/ SkipLink
    \/ DownloadLink(FALSE)
    \/ EndLoop
    \/ RunAgain

Spec == Init /\ [][Next]_vars

\* the server gives the same response to the same URL, in this run and the next
NextSame ==
    \/ FetchPage(TRUE)
    \/ UseCache
    \/ Extract
    \/ NoExtract
    \/ SkipLink
    \/ DownloadLink(TRUE)
    \/ EndLoop
    \/ RunAgain

SpecSame == Init /\ [][NextSame]_vars

\* one call of download_pdf into a fresh directory, answered by a PDF whose
\* Content-Disposition header is put together from the parameters drawn
InitCall ==
    /\ pc = "call"
    /\ run = "first"
    /\ cache = NoFile
    /\ links = <<>>
    /\ idx = 1
    /\ dir_made = FALSE
    /\ files = <<>>
    /\ fetched = "none"
    /\ attempts = <<>>
    /\ last = NoCall
    /\ page_seen = NoPage
    /\ served = <<>>
    /\ produced = {}
    /\ given \in Givens

DownloadGiven ==
    /\ pc = "call"
    /\ LET response == Response("ok", CtPdf, Render(given.params), BodyTwo, "complete", 1)
           res      == download_pdf(given.url, response, dir_made, files)
       IN  /\ dir_made' = res.dir_made
           /\ files' = res.files
           /\ attempts' = Append(attempts, given.url)
           /\ last' = Call(given.url, response, res, files)
    /\ pc' = "returned"
    /\ UNCHANGED <<run, cache, links, idx, fetched, page_seen, served, produced, given>>

NextCall == DownloadGiven

SpecCall == InitCall /\ [][NextCall]_vars

(* ------------------------------ properties ---------------------------- *)
\* a step that is a call of download_pdf
IsCallStep == Len(attempts') = Len(attempts) + 1

\* the Content-Type of a response is absent or does not name a PDF, whatever its case
NotPdfType(response) == ~str_contains(str_lower(response.content_type), CtPdf)

\* C1: idempotence.  When main() is run again on the cache file and the download
\* directory an earlier run left, the server answering each URL as before, no step of
\* the run creates or writes anything in the download directory, and a call for a URL
\* whose call created a file in the first run reports that the file already exists.
C1_Idempotent ==
    [][run' = "again"
          => /\ files' = files
             /\ dir_made' = dir_made
             /\ (IsCallStep /\ \E p \in produced : p.run = "first" /\ p.url = last'.url)
                   => last'.outcome = "SkippedExisting"]_vars

C1_Witness ==
    /\ run = "again"
    /\ last.called
    /\ \E p \in produced : p.url = last.url /\ p.filename = last.filename
    /\ last.outcome = "SkippedExisting"

\* C2 as amended: a call whose GET is answered with a success status and a Content-Type
\* that is absent or does not contain application/pdf (in any case) ends SkippedNotPdf
\* and creates or writes nothing in the download directory, whatever the URL and
\* whatever Content-Disposition says.
C2_ContentTypeGate ==
    [][(IsCallStep /\ last'.response.status = "ok" /\ NotPdfType(last'.response))
          => (last'.outcome = "SkippedNotPdf" /\ files' = files /\ dir_made' = dir_made)]_vars

C2_Witness ==
    /\ last.called
    /\ last.response.status = "ok"
    /\ last.response.content_type = CtHtml
    /\ last.response.content_disposition = CdNamesA
    /\ last.outcome = "SkippedNotPdf"

\* C2 as stated: every call whose response has a Content-Type that is absent or does not
\* contain application/pdf ends SkippedNotPdf and writes no file.
C2_AsStated ==
    [][(IsCallStep /\ last'.response.status # "transport_error" /\ NotPdfType(last'.response))
          => (last'.outcome = "SkippedNotPdf" /\ files' = files /\ dir_made' = dir_made)]_vars

\* C3: at most once per filename.  A call that resolves a filename under which a file
\* already exists ends SkippedExisting, and no step changes or removes a file that
\* exists, so of the URLs that resolve to one filename only the first is saved.
C3_AtMostOncePerFilename ==
    [][/\ (IsCallStep /\ last'.resolved /\ last'.filename \in DOMAIN files)
            => (last'.outcome = "SkippedExisting" /\ files' = files)
       /\ \A f \in DOMAIN files : f \in DOMAIN files' /\ files'[f] = files[f]]_vars

C3_Witness ==
    /\ run = "first"
    /\ Len(attempts) = 2
    /\ attempts[1] # attempts[2]
    /\ last.outcome = "SkippedExisting"
    /\ last.filename \in DOMAIN files
    /\ files[last.filename].data # written(last.response)

\* the links main() has gone through so far, and the calls they ask for
IsNotUrl(href) == ~validate_url(href)
Candidates ==
    IF pc \in {"loop", "done"} /\ cache.exists THEN parse_html(cache.text) ELSE <<>>
ExpectedAttempts ==
    LET sel == SelectSeq(SubSeq(Candidates, 1, idx - 1), IsNotUrl)
    IN  [i \in 1..Len(sel) |-> Origin \o sel[i]]

\* C4: the driver loop.  The calls of download_pdf made so far are the links extracted
\* from the page that are not valid URLs, each prefixed with the origin, in document
\* order, duplicates kept; valid URLs are never attempted; and main() ends only when it
\* has gone through every link, whatever the calls came to.
C4_DriverLoop ==
    /\ attempts = ExpectedAttempts
    /\ pc = "done" => idx = Len(Candidates) + 1

C4_Witness ==
    /\ pc = "done"
    /\ Len(attempts) = 2
    /\ attempts[1] = attempts[2]
    /\ ~dir_made
    /\ last.outcome = "FetchFailed"

\* C5: every URL main() hands to download_pdf is one validate_url accepts.
C5_ResolvedUrlValid == \A i \in 1..Len(attempts) : validate_url(attempts[i])

\* C6: the GET of the seed page fails.  From then to the end of the run the cache file
\* stays absent, no link is extracted, download_pdf is not called and nothing is created
\* in or under the download directory.
C6_SeedFetchFailure ==
    [][fetched' = "failed"
          => /\ ~cache'.exists
             /\ links' = <<>>
             /\ attempts' = <<>>
             /\ files' = files
             /\ dir_made' = dir_made]_vars

C6_Witness == pc = "done" /\ fetched = "failed" /\ ~cache.exists

\* the extension of the name before sanitizing, and what precedes it in the resolved name
OriginalExt == splitext(last.raw_name)[2]
ResolvedStem == SubSeq(last.filename, 1, Len(last.filename) - Len(OriginalExt))

\* C7: the resolved filename is not empty, it ends in the original extension lower-cased,
\* and what precedes it is made of lower-case letters, digits and underscores, with no
\* underscore at either end and no two in a row.
C7_SanitizedName ==
    last.resolved =>
        /\ last.filename # <<>>
        /\ str_endswith(last.filename, str_lower(OriginalExt))
        /\ \A i \in 1..Len(ResolvedStem) : ResolvedStem[i] \in alnumSet \cup {"_"}
        /\ ResolvedStem # <<>> => ResolvedStem[1] # "_" /\ ResolvedStem[Len(ResolvedStem)] # "_"
        /\ \A i \in 1..(Len(ResolvedStem) - 1) :
              ~(ResolvedStem[i] = "_" /\ ResolvedStem[i + 1] = "_")

\* the header drawn has a parameter of the kind
HasParam(kind) == \E i \in 1..Len(given.params) : given.params[i].kind = kind
FirstParam(kind) ==
    given.params[Min({i \in 1..Len(given.params) : given.params[i].kind = kind})]

\* C8: with neither an extended nor a simple filename parameter in the header, the name
\* before sanitizing is the last path segment of the URL, with .pdf appended exactly when
\* the segment does not end in .pdf in any case.
C8_UrlFallback ==
    (last.resolved /\ ~HasParam("extended") /\ ~HasParam("simple")) =>
        LET segment == basename(urlparse_path(last.url))
        IN  /\ last.via = "url"
            /\ last.raw_name = IF str_endswith(str_lower(segment), PdfSuffix)
                               THEN segment ELSE segment \o PdfSuffix

\* C9: header priority.  An extended parameter in the header gives the name, wherever it
\* stands; failing that a simple parameter does; failing that the URL does.
C9_HeaderPriority ==
    last.resolved =>
        /\ HasParam("extended")
              => last.via = "extended" /\ last.raw_name = FirstParam("extended").value
        /\ (~HasParam("extended") /\ HasParam("simple"))
              => last.via = "simple" /\ last.raw_name = FirstParam("simple").value
        /\ (~HasParam("extended") /\ ~HasParam("simple")) => last.via = "url"

C9_Witness ==
    /\ last.resolved
    /\ Len(given.params) = 2
    /\ given.params[1].kind = "simple"
    /\ given.params[2].kind = "extended"
    /\ last.raw_name = given.params[2].value

\* no file and no directory stands at the path of the name
TargetFree(fl, name) == name \notin DOMAIN fl /\ name \notin {<<>>, <<".">>}

\* C10: a write that is interrupted.  A call that opens the file and whose stream or
\* write then fails ends in a failure, not Downloaded, and leaves the file with what was
\* written; a file left incomplete is never changed or removed, and every later call
\* that resolves its name ends SkippedExisting; a call that fails before it resolves a
\* name changes nothing in the download directory.
C10_PartialFileStays ==
    [][/\ (IsCallStep /\ last'.resolved /\ TargetFree(files, last'.filename)
              /\ last'.response.stream # "complete")
            => /\ last'.outcome \in {"FetchFailed", "UnexpectedError"}
               /\ last'.filename \in DOMAIN files'
               /\ ~files'[last'.filename].complete
               /\ files'[last'.filename].data = written(last'.response)
       /\ \A f \in DOMAIN files : ~files[f].complete =>
             /\ f \in DOMAIN files' /\ files'[f] = files[f]
             /\ (IsCallStep /\ last'.resolved /\ last'.filename = f)
                   => last'.outcome = "SkippedExisting"
       /\ (IsCallStep /\ ~last'.resolved /\ last'.outcome \in {"FetchFailed", "UnexpectedError"})
            => (files' = files /\ dir_made' = dir_made)]_vars

C10_Witness ==
    /\ run = "again"
    /\ last.outcome = "SkippedExisting"
    /\ last.filename \in DOMAIN files
    /\ ~files[last.filename].complete
    /\ last.response.stream = "complete"
====
